---------------------------- MODULE Spec2Model ----------------------------
(***************************************************************************)
(* FPIDController (Source/UPIDController/Public/PIDController.h): a        *)
(* discrete-time PID controller struct with four public parameters         *)
(* (P, I, D, MaxOutAbs) and two private pieces of transient state          *)
(* (PrevErr, IErr).                                                        *)
(*                                                                         *)
(* A float is modelled as a record [k, n, d]: k = "num" is the rational    *)
(* n/d in lowest terms with d > 0, k = "nan" is a not-a-number.  Every     *)
(* value the bounded model produces is a small dyadic rational, which      *)
(* binary32 represents exactly, so rational arithmetic is what the float   *)
(* operations compute on these inputs.                                     *)
(***************************************************************************)
EXTENDS Integers, Sequences, FiniteSets, TLC

VARIABLES
    pid,      \* the FPIDController object: [P, I, D, MaxOutAbs, PrevErr, IErr]
    init,     \* which private fields hold a determinate value: [PrevErr, IErr]
    ctor,     \* how the object was constructed, and with which arguments
    last,     \* the last call made: [op, InError, InDeltaTime, ret, Out]
    acc,      \* history: sums of InDeltaTime*InError since construction or Reset
    fresh,    \* a controller constructed at the last Reset, given the same calls
    calls     \* number of calls made so far

vars == <<pid, init, ctor, last, acc, fresh, calls>>

(***************************************************************************)
(* Bounds.                                                                 *)
(***************************************************************************)
MaxCalls == 2

(***************************************************************************)
(* float values and the float operations the header uses.                  *)
(***************************************************************************)
Abs(x) == IF x < 0 THEN -x ELSE x

RECURSIVE GCD(_, _)
GCD(a, b) == IF b = 0 THEN a ELSE GCD(b, a % b)

NaN == [k |-> "nan", n |-> 0, d |-> 1]

\* the rational a/b (b # 0) in lowest terms with a positive denominator
Norm(a, b) ==
    LET s == IF b < 0 THEN -1 ELSE 1
        g == GCD(Abs(a), Abs(b))
    IN  [k |-> "num", n |-> (s * a) \div g, d |-> (s * b) \div g]

\* the float with integer value x
R(x) == [k |-> "num", n |-> x, d |-> 1]

\* the void "return value" of Reset and of no call at all
NoRet == [k |-> "none", n |-> 0, d |-> 1]

IsNaN(x) == x.k = "nan"

\* x == 0.0f
IsZero(x) == x.k = "num" /\ x.n = 0

\* a < b on floats: false when either side is a NaN
Lt(a, b) == a.k = "num" /\ b.k = "num" /\ a.n * b.d < b.n * a.d

Neg(a) == IF IsNaN(a) THEN NaN ELSE Norm(-a.n, a.d)

Add(a, b) ==
    IF IsNaN(a) \/ IsNaN(b) THEN NaN ELSE Norm(a.n * b.d + b.n * a.d, a.d * b.d)

Sub(a, b) == Add(a, Neg(b))

Mul(a, b) ==
    IF IsNaN(a) \/ IsNaN(b) THEN NaN ELSE Norm(a.n * b.n, a.d * b.d)

\* a / b; every division in the header is behind the InDeltaTime == 0.0f
\* test, so b is never zero where the code divides
Div(a, b) ==
    IF IsNaN(a) \/ IsNaN(b) \/ IsZero(b) THEN NaN ELSE Norm(a.n * b.d, a.d * b.n)

\* mutant: a clamp that forgets the lower bound
ClampUpperOnly(X, Min, Max) == IF Lt(X, Max) THEN X ELSE Max

\* FMath::Clamp(X, Min, Max): X<Min ? Min : X<Max ? X : Max
Clamp(X, Min, Max) == IF Lt(X, Min) THEN Min ELSE IF Lt(X, Max) THEN X ELSE Max

(***************************************************************************)
(* Input domains.                                                          *)
(***************************************************************************)
PVals == {R(0), R(2)}

IVals == {R(0), R(1)}

DVals == {R(0), R(1)}

LimitVals == {R(-1), R(3), R(1000)}

ErrorVals == {NaN, R(-2), R(5), R(8)}

DeltaTimeVals == {R(0), R(1), R(2)}

\* what an uninitialised float member may hold
GarbageVals == {NaN, R(7)}

\* the storage of an object before any constructor body has run
Memory ==
    [P : GarbageVals, I : GarbageVals, D : GarbageVals, MaxOutAbs : GarbageVals,
     PrevErr : GarbageVals, IErr : GarbageVals]

(***************************************************************************)
(* The member functions, as functions from the object (and arguments) to   *)
(* the object afterwards (c), the value returned (out) and the local Out   *)
(* that was clamped (NoRet on the early return).                           *)
(***************************************************************************)
\* mutant: a Reset that forgets IErr
ResetKeepsIErr(c) == [c EXCEPT !.PrevErr = R(0)]

Reset(c) == [c EXCEPT !.PrevErr = R(0), !.IErr = R(0)]

\* mutant: a constructor that does not call Reset
FPIDControllerNoReset(InP, InI, InD, InMaxOutAbs, mem) ==
    [mem EXCEPT !.P = InP, !.I = InI, !.D = InD, !.MaxOutAbs = InMaxOutAbs]

\* FPIDController(InP, InI, InD, InMaxOutAbs) run on storage mem
FPIDController(InP, InI, InD, InMaxOutAbs, mem) ==
    Reset([mem EXCEPT !.P = InP, !.I = InI, !.D = InD, !.MaxOutAbs = InMaxOutAbs])

\* FPIDController() { } run on storage mem: nothing is initialised
FPIDControllerDefault(mem) == mem

\* mutant: the integral output computed before IErr is incremented
UpdateStaleIntegral(c, InError, InDeltaTime) ==
    IF IsZero(InDeltaTime) \/ IsNaN(InError)
    THEN [c |-> c, out |-> R(0), Out |-> NoRet]
    ELSE LET POut == Mul(c.P, InError)
             IOut == Mul(c.I, c.IErr)
             IErr == Add(c.IErr, Mul(InDeltaTime, InError))
             DErr == Div(Sub(InError, c.PrevErr), InDeltaTime)
             DOut == Mul(c.D, DErr)
             Out  == Add(Add(POut, IOut), DOut)
         IN  [c   |-> [c EXCEPT !.IErr = IErr, !.PrevErr = InError],
              out |-> Clamp(Out, Neg(c.MaxOutAbs), c.MaxOutAbs),
              Out |-> Out]

Update(c, InError, InDeltaTime) ==
    IF IsZero(InDeltaTime) \/ IsNaN(InError)
    THEN [c |-> c, out |-> R(0), Out |-> NoRet]
    ELSE LET POut == Mul(c.P, InError)
             IErr == Add(c.IErr, Mul(InDeltaTime, InError))
             IOut == Mul(c.I, IErr)
             DErr == Div(Sub(InError, c.PrevErr), InDeltaTime)
             DOut == Mul(c.D, DErr)
             Out  == Add(Add(POut, IOut), DOut)
         IN  [c   |-> [c EXCEPT !.IErr = IErr, !.PrevErr = InError],
              out |-> Clamp(Out, Neg(c.MaxOutAbs), c.MaxOutAbs),
              Out |-> Out]

UpdateAsPID(c, InError, InDeltaTime) == Update(c, InError, InDeltaTime)

\* mutant: an UpdateAsP that records InError in PrevErr
UpdateAsPStoresPrevErr(c, InError) ==
    IF IsNaN(InError)
    THEN [c |-> c, out |-> R(0), Out |-> NoRet]
    ELSE LET Out == Mul(c.P, InError)
         IN  [c   |-> [c EXCEPT !.PrevErr = InError],
              out |-> Clamp(Out, Neg(c.MaxOutAbs), c.MaxOutAbs),
              Out |-> Out]

\* mutant: an UpdateAsP that adds a derivative term against PrevErr
UpdateAsPWithDerivative(c, InError) ==
    IF IsNaN(InError)
    THEN [c |-> c, out |-> R(0), Out |-> NoRet]
    ELSE LET Out == Add(Mul(c.P, InError), Mul(c.D, Sub(InError, c.PrevErr)))
         IN  [c   |-> c,
              out |-> Clamp(Out, Neg(c.MaxOutAbs), c.MaxOutAbs),
              Out |-> Out]

UpdateAsP(c, InError) ==
    IF IsNaN(InError)
    THEN [c |-> c, out |-> R(0), Out |-> NoRet]
    ELSE LET Out == Mul(c.P, InError)
         IN  [c   |-> c,
              out |-> Clamp(Out, Neg(c.MaxOutAbs), c.MaxOutAbs),
              Out |-> Out]

\* mutant: an UpdateAsPD that also accumulates IErr
UpdateAsPDIntegrates(c, InError, InDeltaTime) ==
    IF IsZero(InDeltaTime) \/ IsNaN(InError)
    THEN [c |-> c, out |-> R(0), Out |-> NoRet]
    ELSE LET POut == Mul(c.P, InError)
             IErr == Add(c.IErr, Mul(InDeltaTime, InError))
             DErr == Div(Sub(InError, c.PrevErr), InDeltaTime)
             DOut == Mul(c.D, DErr)
             Out  == Add(POut, DOut)
         IN  [c   |-> [c EXCEPT !.IErr = IErr, !.PrevErr = InError],
              out |-> Clamp(Out, Neg(c.MaxOutAbs), c.MaxOutAbs),
              Out |-> Out]

UpdateAsPD(c, InError, InDeltaTime) ==
    IF IsZero(InDeltaTime) \/ IsNaN(InError)
    THEN [c |-> c, out |-> R(0), Out |-> NoRet]
    ELSE LET POut == Mul(c.P, InError)
             DErr == Div(Sub(InError, c.PrevErr), InDeltaTime)
             DOut == Mul(c.D, DErr)
             Out  == Add(POut, DOut)
         IN  [c   |-> [c EXCEPT !.PrevErr = InError],
              out |-> Clamp(Out, Neg(c.MaxOutAbs), c.MaxOutAbs),
              Out |-> Out]

\* mutant: an UpdateAsPI whose guard does not test InError for NaN
UpdateAsPINoNaNTest(c, InError, InDeltaTime) ==
    IF IsZero(InDeltaTime)
    THEN [c |-> c, out |-> R(0), Out |-> NoRet]
    ELSE LET POut == Mul(c.P, InError)
             IErr == Add(c.IErr, Mul(InDeltaTime, InError))
             IOut == Mul(c.I, IErr)
             Out  == Add(POut, IOut)
         IN  [c   |-> [c EXCEPT !.IErr = IErr],
              out |-> Clamp(Out, Neg(c.MaxOutAbs), c.MaxOutAbs),
              Out |-> Out]

\* mutant: an UpdateAsPI that also stores InError in PrevErr
UpdateAsPIStoresPrevErr(c, InError, InDeltaTime) ==
    IF IsZero(InDeltaTime) \/ IsNaN(InError)
    THEN [c |-> c, out |-> R(0), Out |-> NoRet]
    ELSE LET POut == Mul(c.P, InError)
             IErr == Add(c.IErr, Mul(InDeltaTime, InError))
             IOut == Mul(c.I, IErr)
             Out  == Add(POut, IOut)
         IN  [c   |-> [c EXCEPT !.IErr = IErr, !.PrevErr = InError],
              out |-> Clamp(Out, Neg(c.MaxOutAbs), c.MaxOutAbs),
              Out |-> Out]

\* mutant: an UpdateAsPI with anti-windup: IErr is kept when the output saturates
UpdateAsPIAntiWindup(c, InError, InDeltaTime) ==
    IF IsZero(InDeltaTime) \/ IsNaN(InError)
    THEN [c |-> c, out |-> R(0), Out |-> NoRet]
    ELSE LET POut == Mul(c.P, InError)
             IErr == Add(c.IErr, Mul(InDeltaTime, InError))
             IOut == Mul(c.I, IErr)
             Out  == Add(POut, IOut)
             ret  == Clamp(Out, Neg(c.MaxOutAbs), c.MaxOutAbs)
         IN  [c   |-> IF ret = Out THEN [c EXCEPT !.IErr = IErr] ELSE c,
              out |-> ret,
              Out |-> Out]

UpdateAsPI(c, InError, InDeltaTime) ==
    IF IsZero(InDeltaTime) \/ IsNaN(InError)
    THEN [c |-> c, out |-> R(0), Out |-> NoRet]
    ELSE LET POut == Mul(c.P, InError)
             IErr == Add(c.IErr, Mul(InDeltaTime, InError))
             IOut == Mul(c.I, IErr)
             Out  == Add(POut, IOut)
         IN  [c   |-> [c EXCEPT !.IErr = IErr],
              out |-> Clamp(Out, Neg(c.MaxOutAbs), c.MaxOutAbs),
              Out |-> Out]

\* the member functions that take (InError, InDeltaTime)
DeltaTimeOps == {"Update", "UpdateAsPID", "UpdateAsPD", "UpdateAsPI"}

\* the call op(InError, InDeltaTime) on c (UpdateAsP takes no InDeltaTime)
Call(op, c, InError, InDeltaTime) ==
    CASE op = "Update"      -> Update(c, InError, InDeltaTime)
      [] op = "UpdateAsPID" -> UpdateAsPID(c, InError, InDeltaTime)
      [] op = "UpdateAsP"   -> UpdateAsP(c, InError)
      [] op = "UpdateAsPD"  -> UpdateAsPD(c, InError, InDeltaTime)
      [] op = "UpdateAsPI"  -> UpdateAsPI(c, InError, InDeltaTime)

\* the test of the early return of Update, UpdateAsPD and UpdateAsPI
Rejected(InError, InDeltaTime) == IsZero(InDeltaTime) \/ IsNaN(InError)

\* the member functions with the statement PrevErr = InError, which gives
\* PrevErr a determinate value whatever it held
AssignsPrevErr == {"Update", "UpdateAsPID", "UpdateAsPD"}

\* the member functions with the statement IErr += InDeltaTime * InError,
\* which reads IErr: an indeterminate IErr stays indeterminate
AccumulatesIErr == {"Update", "UpdateAsPID", "UpdateAsPI"}

(***************************************************************************)
(* The state machine: one object, constructed either way, then called.     *)
(***************************************************************************)
NoCall ==
    [op |-> "none", InError |-> NoRet, InDeltaTime |-> NoRet, ret |-> NoRet,
     Out |-> NoRet]

NoFresh == [on |-> FALSE, PrevErr |-> NoRet, IErr |-> NoRet, ret |-> NoRet]

Init ==
    /\ \E mem \in Memory :
         \/ /\ pid = FPIDControllerDefault(mem)
            /\ init = [PrevErr |-> FALSE, IErr |-> FALSE]
            /\ ctor = [how |-> "default", InP |-> NoRet, InI |-> NoRet,
                       InD |-> NoRet, InMaxOutAbs |-> NoRet]
         \/ \E InP \in PVals, InI \in IVals, InD \in DVals,
               InMaxOutAbs \in LimitVals :
                /\ pid = FPIDController(InP, InI, InD, InMaxOutAbs, mem)
                /\ init = [PrevErr |-> TRUE, IErr |-> TRUE]
                /\ ctor = [how |-> "param", InP |-> InP, InI |-> InI,
                           InD |-> InD, InMaxOutAbs |-> InMaxOutAbs]
    /\ last = NoCall
    /\ acc = [all |-> R(0), pi |-> R(0)]
    /\ fresh = NoFresh
    /\ calls = 0

\* the controller constructed at the last Reset receives the same call
FreshAfter(op, InError, InDeltaTime) ==
    IF fresh.on
    THEN LET f == Call(op, [pid EXCEPT !.PrevErr = fresh.PrevErr, !.IErr = fresh.IErr],
                       InError, InDeltaTime)
         IN  [on |-> TRUE, PrevErr |-> f.c.PrevErr, IErr |-> f.c.IErr, ret |-> f.out]
    ELSE fresh

\* one call of a member function that takes (InError, InDeltaTime)
Step(op, InError, InDeltaTime) ==
    LET r == Call(op, pid, InError, InDeltaTime)
        passes == ~Rejected(InError, InDeltaTime)
        term == Mul(InDeltaTime, InError)
    IN  /\ calls < MaxCalls
        /\ calls' = calls + 1
        /\ pid' = r.c
        /\ last' = [op |-> op, InError |-> InError, InDeltaTime |-> InDeltaTime,
                    ret |-> r.out, Out |-> r.Out]
        /\ init' = [init EXCEPT !.PrevErr = @ \/ (passes /\ op \in AssignsPrevErr)]
        /\ acc' = [all |-> IF passes THEN Add(acc.all, term) ELSE acc.all,
                   pi  |-> IF passes /\ op \in AccumulatesIErr
                           THEN Add(acc.pi, term) ELSE acc.pi]
        /\ fresh' = FreshAfter(op, InError, InDeltaTime)
        /\ UNCHANGED ctor

CallUpdate ==
    \E InError \in ErrorVals, InDeltaTime \in DeltaTimeVals :
        Step("Update", InError, InDeltaTime)

CallUpdateAsPID ==
    \E InError \in ErrorVals, InDeltaTime \in DeltaTimeVals :
        Step("UpdateAsPID", InError, InDeltaTime)

CallUpdateAsPD ==
    \E InError \in ErrorVals, InDeltaTime \in DeltaTimeVals :
        Step("UpdateAsPD", InError, InDeltaTime)

CallUpdateAsPI ==
    \E InError \in ErrorVals, InDeltaTime \in DeltaTimeVals :
        Step("UpdateAsPI", InError, InDeltaTime)

CallUpdateAsP ==
    \E InError \in ErrorVals :
        LET r == UpdateAsP(pid, InError)
        IN  /\ calls < MaxCalls
            /\ calls' = calls + 1
            /\ pid' = r.c
            /\ last' = [op |-> "UpdateAsP", InError |-> InError,
                        InDeltaTime |-> NoRet, ret |-> r.out, Out |-> r.Out]
            /\ fresh' = FreshAfter("UpdateAsP", InError, NoRet)
            /\ UNCHANGED <<init, ctor, acc>>

CallReset ==
    /\ calls < MaxCalls
    /\ calls' = calls + 1
    /\ pid' = Reset(pid)
    /\ init' = [PrevErr |-> TRUE, IErr |-> TRUE]
    /\ last' = [op |-> "Reset", InError |-> NoRet, InDeltaTime |-> NoRet,
                ret |-> NoRet, Out |-> NoRet]
    /\ acc' = [all |-> R(0), pi |-> R(0)]
    /\ \E p \in GarbageVals, i \in GarbageVals :
         LET mem == [pid EXCEPT !.PrevErr = p, !.IErr = i]
             f == FPIDController(pid.P, pid.I, pid.D, pid.MaxOutAbs, mem)
         IN  fresh' = [on |-> TRUE, PrevErr |-> f.PrevErr, IErr |-> f.IErr,
                       ret |-> NoRet]
    /\ UNCHANGED ctor

Next ==
    \/ CallUpdate
    \/ CallUpdateAsPID
    \/ CallUpdateAsP
    \/ CallUpdateAsPD
    \/ CallUpdateAsPI
    \/ CallReset

Spec == Init /\ [][Next]_vars

(***************************************************************************)
(* Properties.                                                             *)
(***************************************************************************)
\* the last call took (InError, InDeltaTime) and returned early
RejectedCall(l) == l.op \in DeltaTimeOps /\ Rejected(l.InError, l.InDeltaTime)

\* the last call took (InError, InDeltaTime) and got past the early return
PassedCall(l) == l.op \in DeltaTimeOps /\ ~Rejected(l.InError, l.InDeltaTime)

UpdateOps == DeltaTimeOps \cup {"UpdateAsP"}

\* both private fields hold a determinate value
Ready == init.PrevErr /\ init.IErr

\* x >= 0 on floats
Ge0(x) == x.k = "num" /\ x.n >= 0

\* C1: a call of Update / UpdateAsPID, UpdateAsPD or UpdateAsPI with
\* InDeltaTime == 0 (any InError) or with a NaN InError (any InDeltaTime)
\* returns exactly 0 and leaves the whole object, PrevErr and IErr included,
\* as it was.
C1_DegenerateInputIsNoOp ==
    [][RejectedCall(last') =>
          /\ last'.ret = R(0)
          /\ pid'.PrevErr = pid.PrevErr
          /\ pid'.IErr = pid.IErr
          /\ pid' = pid]_vars

\* C1 case: UpdateAsPI(8, 2) accumulated 16, then UpdateAsPI(NaN, 2) returned 0
C1_Witness ==
    /\ last.op = "UpdateAsPI"
    /\ IsNaN(last.InError)
    /\ last.InDeltaTime = R(2)
    /\ last.ret = R(0)
    /\ pid.IErr = R(16)
    /\ ctor.how = "param"

\* C2: with MaxOutAbs >= 0 the value every update variant returns lies in
\* [-MaxOutAbs, MaxOutAbs]; when the unclamped sum Out is above MaxOutAbs the
\* value is exactly MaxOutAbs, when it is below -MaxOutAbs exactly -MaxOutAbs.
C2_SymmetricClamp ==
    (last.op \in UpdateOps /\ Ge0(pid.MaxOutAbs)) =>
        /\ last.ret.k = "num"
        /\ ~Lt(last.ret, Neg(pid.MaxOutAbs))
        /\ ~Lt(pid.MaxOutAbs, last.ret)
        /\ Lt(pid.MaxOutAbs, last.Out) => last.ret = pid.MaxOutAbs
        /\ Lt(last.Out, Neg(pid.MaxOutAbs)) => last.ret = Neg(pid.MaxOutAbs)

\* C2 case: P = 2, D = 1, limit 3: UpdateAsPD(8, 1) then UpdateAsPD(-2, 1) has
\* Out = -4 + (-10) = -14, returned as -3
C2_Witness ==
    /\ last.op = "UpdateAsPD"
    /\ pid.MaxOutAbs = R(3)
    /\ last.Out = R(-14)
    /\ last.ret = R(-3)

\* the sum the claim gives for a full PID step made with PrevErr = e0 and
\* IErr = i0: P*e + I*(i0 + dt*e) + D*(e - e0)/dt
ClaimedSum(c, e, dt) ==
    LET i1 == Add(c.IErr, Mul(dt, e))
    IN  Add(Add(Mul(c.P, e), Mul(c.I, i1)), Mul(c.D, Div(Sub(e, c.PrevErr), dt)))

\* C3: a call Update(InError, InDeltaTime) or UpdateAsPID(InError, InDeltaTime)
\* that passes the guard, made with PrevErr = e0 and IErr = i0, returns
\* Clamp(P*InError + I*(i0 + InDeltaTime*InError) + D*(InError - e0)/InDeltaTime,
\* -MaxOutAbs, MaxOutAbs) and leaves IErr = i0 + InDeltaTime*InError and
\* PrevErr = InError.
C3_FullPIDStep ==
    [][(PassedCall(last') /\ last'.op \in {"Update", "UpdateAsPID"}) =>
          /\ last'.Out = ClaimedSum(pid, last'.InError, last'.InDeltaTime)
          /\ last'.ret = Clamp(last'.Out, Neg(pid.MaxOutAbs), pid.MaxOutAbs)
          /\ pid'.IErr = Add(pid.IErr, Mul(last'.InDeltaTime, last'.InError))
          /\ pid'.PrevErr = last'.InError]_vars

\* C3 case: gains (0, 0, 1), limit 1000, fresh controller: Update(5, 1)
\* returned 5 and now Update(8, 1) returned 3
C3_Witness ==
    /\ ctor.how = "param"
    /\ pid.P = R(0) /\ pid.I = R(0) /\ pid.D = R(1) /\ pid.MaxOutAbs = R(1000)
    /\ calls = 2
    /\ last.op = "Update"
    /\ last.InError = R(8) /\ last.InDeltaTime = R(1)
    /\ last.ret = R(3)
    /\ pid.PrevErr = R(8)
    /\ pid.IErr = R(13)

\* C4 as claimed: once IErr is determinate (after the parameterized
\* constructor or a Reset), IErr is the sum of InDeltaTime*InError over all
\* guard-passing UpdateAsPD, UpdateAsPI and UpdateAsPID / Update calls since.
C4_IntegralSumsEveryDeltaTimeCall ==
    init.IErr => pid.IErr = acc.all

\* C4 amended: once IErr is determinate, IErr is the sum of
\* InDeltaTime*InError over the guard-passing UpdateAsPI and UpdateAsPID /
\* Update calls since; UpdateAsPD calls add nothing.
C4_IntegralSumsPIAndPIDCalls ==
    init.IErr => pid.IErr = acc.pi

\* C4 case: UpdateAsPD(5, 1) then UpdateAsPI(5, 2): IErr is 10, not 15
C4_Witness ==
    /\ ctor.how = "param"
    /\ last.op = "UpdateAsPI"
    /\ last.InError = R(5) /\ last.InDeltaTime = R(2)
    /\ pid.IErr = R(10)
    /\ acc.all = R(15)

\* C5 as claimed, on a controller built by the parameterized constructor:
\* after every guard-passing UpdateAsPD, UpdateAsPI or UpdateAsPID / Update
\* call, PrevErr is the InError of that call.
C5_PrevErrTracksEveryDeltaTimeCall ==
    (ctor.how = "param" /\ PassedCall(last)) => pid.PrevErr = last.InError

\* C5 amended: after every guard-passing UpdateAsPD or UpdateAsPID / Update
\* call PrevErr is the InError of that call; a guard-passing UpdateAsPI call
\* leaves PrevErr as it was.
C5_PrevErrTracksPDAndPIDCalls ==
    [][PassedCall(last') =>
          /\ last'.op \in {"Update", "UpdateAsPID", "UpdateAsPD"} =>
                pid'.PrevErr = last'.InError
          /\ last'.op = "UpdateAsPI" => pid'.PrevErr = pid.PrevErr]_vars

\* C5 case: UpdateAsPD(8, 1) then UpdateAsPI(5, 1): PrevErr is still 8
C5_Witness ==
    /\ ctor.how = "param"
    /\ last.op = "UpdateAsPI"
    /\ last.InError = R(5) /\ last.InDeltaTime = R(1)
    /\ pid.PrevErr = R(8)

\* C6: UpdateAsP changes nothing of the object; UpdateAsPD changes at most
\* PrevErr; UpdateAsPI changes at most IErr.  So in every reachable state an
\* UpdateAsP call with any InError leaves the object, and with it every later
\* output, as it was.
C6_VariantFrame ==
    [][/\ last'.op = "UpdateAsP" => pid' = pid
       /\ last'.op = "UpdateAsPD" => pid' = [pid EXCEPT !.PrevErr = pid'.PrevErr]
       /\ last'.op = "UpdateAsPI" => pid' = [pid EXCEPT !.IErr = pid'.IErr]
       /\ \A e \in ErrorVals : UpdateAsP(pid', e).c = pid']_vars

\* C6 case: UpdateAsPI(5, 1) then UpdateAsPD(8, 1): IErr kept, PrevErr moved
C6_Witness ==
    /\ ctor.how = "param"
    /\ last.op = "UpdateAsPD"
    /\ last.InError = R(8) /\ last.InDeltaTime = R(1)
    /\ pid.PrevErr = R(8)
    /\ pid.IErr = R(5)

\* C7: Reset sets PrevErr = 0 and IErr = 0 and leaves P, I, D and MaxOutAbs
\* alone; a second Reset changes nothing; and from a Reset on, the object is
\* in the state of, and returns the values of, a controller freshly
\* constructed with the same gains and limit and given the same calls.
C7_ResetRestoresFresh ==
    [][/\ last'.op = "Reset" =>
            /\ pid'.PrevErr = R(0)
            /\ pid'.IErr = R(0)
            /\ pid' = [pid EXCEPT !.PrevErr = R(0), !.IErr = R(0)]
            /\ Reset(pid') = pid'
       /\ fresh'.on =>
            /\ fresh'.PrevErr = pid'.PrevErr
            /\ fresh'.IErr = pid'.IErr
            /\ fresh'.ret = last'.ret]_vars

\* C7 case: a default-constructed object holding garbage was Reset and then
\* Update(5, 2) returned what the fresh controller returned
C7_Witness ==
    /\ ctor.how = "default"
    /\ pid.P = R(7) /\ pid.I = R(7) /\ pid.D = R(7) /\ pid.MaxOutAbs = R(7)
    /\ fresh.on
    /\ last.op = "Update"
    /\ last.InError = R(5) /\ last.InDeltaTime = R(2)
    /\ pid.IErr = R(10)
    /\ fresh.ret = last.ret

\* C8: whatever PrevErr and IErr hold, UpdateAsP(InError) returns
\* Clamp(P*InError, -MaxOutAbs, MaxOutAbs), and 0 for a NaN InError.
C8_PureP ==
    /\ last.op = "UpdateAsP" =>
          last.ret = IF IsNaN(last.InError) THEN R(0)
                     ELSE Clamp(Mul(pid.P, last.InError),
                                Neg(pid.MaxOutAbs), pid.MaxOutAbs)
    /\ \A e \in ErrorVals, p \in ErrorVals \cup GarbageVals :
          LET want == IF IsNaN(e) THEN R(0)
                      ELSE Clamp(Mul(pid.P, e), Neg(pid.MaxOutAbs), pid.MaxOutAbs)
          IN  /\ UpdateAsP([pid EXCEPT !.PrevErr = p], e).out = want
              /\ UpdateAsP([pid EXCEPT !.IErr = p], e).out = want

\* C8 case: P = 2, limit 1000: after UpdateAsPD(8, 1), UpdateAsP(5) returns 10
C8_Witness ==
    /\ last.op = "UpdateAsP"
    /\ last.InError = R(5)
    /\ pid.P = R(2) /\ pid.MaxOutAbs = R(1000)
    /\ pid.PrevErr = R(8)
    /\ last.ret = R(10)

\* the parameterized constructor stored its arguments, and they stay
ArgumentsStored ==
    ctor.how = "param" =>
        /\ pid.P = ctor.InP /\ pid.I = ctor.InI /\ pid.D = ctor.InD
        /\ pid.MaxOutAbs = ctor.InMaxOutAbs
        /\ Ready
        /\ calls = 0 => (pid.PrevErr = R(0) /\ pid.IErr = R(0))

\* the default constructor leaves PrevErr and IErr indeterminate
DefaultLeavesUndefined ==
    (ctor.how = "default" /\ calls = 0) => (~init.PrevErr /\ ~init.IErr)

\* C9 as claimed: the parameterized constructor stores its arguments and
\* leaves PrevErr = 0 and IErr = 0; the default constructor leaves PrevErr and
\* IErr undefined, and each stays undefined until Reset is called; once both
\* are defined they stay so.
C9_UndefinedUntilReset ==
    [][/\ ArgumentsStored /\ ArgumentsStored'
       /\ DefaultLeavesUndefined
       /\ (~init.PrevErr /\ init'.PrevErr) => last'.op = "Reset"
       /\ (~init.IErr /\ init'.IErr) => last'.op = "Reset"
       /\ Ready => Ready']_vars

\* C9 amended: the parameterized constructor stores its arguments and leaves
\* PrevErr = 0 and IErr = 0; the default constructor leaves PrevErr and IErr
\* undefined; IErr stays undefined until Reset is called, PrevErr until Reset
\* or a guard-passing UpdateAsPD or UpdateAsPID / Update call, which stores
\* InError in it; so only Reset makes both defined, and once both are defined
\* they stay so.
C9_Lifecycle ==
    [][/\ ArgumentsStored /\ ArgumentsStored'
       /\ DefaultLeavesUndefined
       /\ (~init.PrevErr /\ init'.PrevErr) =>
             \/ last'.op = "Reset"
             \/ PassedCall(last') /\ last'.op \in AssignsPrevErr
                  /\ pid'.PrevErr = last'.InError
       /\ (~init.IErr /\ init'.IErr) => last'.op = "Reset"
       /\ (~Ready /\ Ready') => last'.op = "Reset"
       /\ Ready => Ready']_vars

\* C9 case: a default-constructed object after UpdateAsPD(5, 1): PrevErr is
\* the 5 just stored, IErr is still the garbage it was constructed with
C9_Witness ==
    /\ ctor.how = "default"
    /\ last.op = "UpdateAsPD"
    /\ last.InError = R(5) /\ last.InDeltaTime = R(1)
    /\ init.PrevErr /\ ~init.IErr
    /\ pid.PrevErr = R(5)
    /\ pid.IErr = R(7)

\* PrevErr and IErr after the call op(e, dt) on c
TransientAfter(op, c, e, dt) ==
    LET after == Call(op, c, e, dt).c
    IN  <<after.PrevErr, after.IErr>>

\* C10: what a call leaves in PrevErr and IErr does not depend on MaxOutAbs:
\* made with any other limit, the same call from the same state leaves the
\* same PrevErr and IErr; and every guard-passing UpdateAsPI, UpdateAsPID or
\* Update call adds InDeltaTime*InError to IErr, clamped output or not.
C10_NoAntiWindup ==
    [][last'.op \in UpdateOps =>
          /\ \A lim \in LimitVals :
                TransientAfter(last'.op, [pid EXCEPT !.MaxOutAbs = lim],
                               last'.InError, last'.InDeltaTime)
                    = <<pid'.PrevErr, pid'.IErr>>
          /\ (PassedCall(last') /\ last'.op \in AccumulatesIErr) =>
                pid'.IErr = Add(pid.IErr, Mul(last'.InDeltaTime, last'.InError))]_vars

\* C10 case: I = 1, limit 3: UpdateAsPI(8, 2) then UpdateAsPI(5, 2) both
\* return the limit 3 while IErr has grown to 26
C10_Witness ==
    /\ ctor.how = "param"
    /\ pid.I = R(1) /\ pid.MaxOutAbs = R(3)
    /\ last.op = "UpdateAsPI"
    /\ last.InError = R(5) /\ last.InDeltaTime = R(2)
    /\ Lt(pid.MaxOutAbs, last.Out)
    /\ last.ret = R(3)
    /\ pid.IErr = R(26)

=============================================================================
